---- MODULE Spec2Model ----
(***************************************************************************)
(* Model of app.py, the "Iceberg Query Engine" Streamlit front-end.         *)
(*                                                                         *)
(* Two state machines share this module:                                   *)
(*   SpecResolve  one call of filter_latest_data (lines 27-49), statement  *)
(*                by statement, on every input table and history relation  *)
(*                within the bounds;                                       *)
(*   SpecMain     passes of main() (lines 96-128), with execute_query,     *)
(*                run_query, display_results and initialize_spark inlined  *)
(*                statement by statement. Streamlit runs the script in one *)
(*                thread per browser session, so the passes of different   *)
(*                browser sessions interleave in one process and share the *)
(*                SparkSession that getOrCreate() hands out; and Streamlit *)
(*                ends a pass early by raising a BaseException             *)
(*                (RerunException, StopException) inside a call of st.*.   *)
(*                main() takes no lock and has no finally.                 *)
(*                                                                         *)
(* A DataFrame is a record [cols, rows]: its schema (a set of column names) *)
(* and a bag (multiset) of rows, each row a function from cols to values.   *)
(* Spark analyses a DataFrame operation when it is called, so a reference   *)
(* to a column the schema lacks raises AnalysisException at that statement. *)
(***************************************************************************)
EXTENDS Bags, FiniteSets, Integers, Sequences, TLC

VARIABLES
    \* ---- filter_latest_data ----
    history,             \* the relation <catalog>.<database>.<table>.history
    input_df,            \* the iceberg_df argument as passed by the caller
    iceberg_df,          \* the local variable iceberg_df (rebound at 37, 42)
    latest_snapshot_id,  \* {} until line 34 binds it, then {snapshot_id}
    exc,                 \* the exception in flight ("none" when there is none)
    fpc,                 \* position inside filter_latest_data
    returned,            \* <<>> until the function returns, then <<DataFrame>>
    ui,                  \* elements rendered by st.error in filter_latest_data
    \* ---- main(): the process ----
    passes,              \* number of script passes started
    tmp_files,           \* temporary key files written and never deleted (107-109)
    session_seq,         \* number of SparkSessions created so far in the process
    active_session,      \* the process-wide session getOrCreate hands out: {} or {id}
    stopped,             \* sessions on which stop() was called
    \* ---- main(): one value per script thread ----
    form,                \* widget values read by the pass (lines 100-102, 115, 117)
    mpc,                 \* position inside main / execute_query
    ended,               \* how the thread's last pass left main()
    spark,               \* main's local variable spark: {} or {id}
    engine,              \* what the engine answered to the pass's query
    engine_log,          \* calls of spark.sql in the pass: <<[session, sql, alive]>>
    result,              \* run_query's return value: <<>> or <<[kind, ...]>>
    mexc,                \* the exception in flight in execute_query
    pandas_df,           \* <<>> until execute_query returns, then <<value>>
    progress,            \* values given to progress_bar.progress in the pass
    materialized,        \* toPandas() has returned in the pass
    page                 \* elements rendered by st.error / st.info / st.dataframe

fvars == <<history, input_df, iceberg_df, latest_snapshot_id, exc, fpc, returned, ui>>
process == <<passes, tmp_files, session_seq, active_session, stopped>>
mvars == <<process, form, mpc, ended, spark, engine, engine_log, result, mexc,
           pandas_df, progress, materialized, page>>
vars == <<fvars, mvars>>

-----------------------------------------------------------------------------
(* Bounds of the model *)

\* most rows in the input DataFrame
MaxRows == 3
\* most rows in the history relation
MaxHist == 2
\* most passes of main()
MaxPasses == 3

-----------------------------------------------------------------------------
(* Values *)

SnapshotIds == {1, 2}
CommitTimes == {100, 200}
Ids         == {"a", "b"}
Timestamps  == {10, 20}
Payloads    == {"x", "y"}

\* The columns the function refers to by name.
HistoryColumns == {"snapshot_id", "timestamp"}
DataColumns    == {"snapshot_id", "id", "timestamp"}
\* The name filter_latest_data gives to its rank column (lines 42-44).
RankColumn == "row_number"
\* A table has one more column: a payload, which may be called anything,
\* "row_number" included.
PayloadColumns == {"v", RankColumn}

Restrict(r, S) == [c \in S |-> r[c]]

\* Schemas: every named column present, or one of them missing.
OneMissing(S) == {S} \cup {S \ {c} : c \in S}
HistorySchemas == OneMissing(HistoryColumns)
DataSchemas == {S \cup {p} : S \in OneMissing(DataColumns), p \in PayloadColumns}

HistoryRowsOf(S) ==
    {Restrict(r, S) : r \in [snapshot_id : SnapshotIds, timestamp : CommitTimes]}
DataRowsOf(S) ==
    {Restrict(r, S) : r \in [snapshot_id : SnapshotIds, id : Ids,
                             timestamp : Timestamps, v : Payloads,
                             row_number : Payloads]}

RECURSIVE BagsUpTo(_, _)
BagsUpTo(rows, n) ==
    IF n = 0 THEN {EmptyBag}
    ELSE LET smaller == BagsUpTo(rows, n - 1)
         IN  smaller \cup {b (+) SetToBag({r}) : b \in smaller, r \in rows}

DataFrames == UNION {[cols : {S}, rows : BagsUpTo(DataRowsOf(S), MaxRows)] : S \in DataSchemas}

\* The history relation of the table: absent (the SELECT at line 30 raises),
\* or present with a schema and rows.
NoTable == [exists |-> FALSE, cols |-> {}, rows |-> EmptyBag]
Histories ==
    {NoTable} \cup
    UNION {[exists : {TRUE}, cols : {S}, rows : BagsUpTo(HistoryRowsOf(S), MaxHist)]
           : S \in HistorySchemas}

-----------------------------------------------------------------------------
(* filter_latest_data, lines 27-49 *)

\* Lines 30-34: what the try block raises before latest_snapshot_id is bound.
\*   30  spark.sql(... .history)            AnalysisException: no such table
\*   33  orderBy("timestamp")               AnalysisException: no such column
\*   34  collect()[0]                       IndexError: the history is empty
\*   34  [...]["snapshot_id"]               ValueError: the Row has no such field
HistoryException(h) ==
    IF ~h.exists THEN "AnalysisException"
    ELSE IF "timestamp" \notin h.cols THEN "AnalysisException"
    ELSE IF h.rows = EmptyBag THEN "IndexError"
    ELSE IF "snapshot_id" \notin h.cols THEN "ValueError"
    ELSE "none"

\* Faulty variant of LatestSnapshotRows: ascending order (the oldest snapshot).
MutLatestSnapshotRows(h) ==
    {r \in BagToSet(h.rows) : \A q \in BagToSet(h.rows) : q.timestamp >= r.timestamp}

\* Line 33: orderBy("timestamp", ascending=False).limit(1). The engine may put
\* any of the rows that share the greatest timestamp first.
LatestSnapshotRows(h) ==
    {r \in BagToSet(h.rows) : \A q \in BagToSet(h.rows) : q.timestamp <= r.timestamp}

\* Line 37: iceberg_df.filter(col("snapshot_id") == latest_snapshot_id)
FilterBySnapshot(df, sid) ==
    LET keep == {r \in BagToSet(df.rows) : r.snapshot_id = sid}
    IN  [cols |-> df.cols, rows |-> [r \in keep |-> df.rows[r]]]

\* Faulty variant of RankOneRows: ascending order (the oldest row of the id).
MutRankOneRows(df, i) ==
    {r \in BagToSet(df.rows) :
        /\ r.id = i
        /\ \A q \in BagToSet(df.rows) : q.id = i => q.timestamp >= r.timestamp}

\* Line 41: Window.partitionBy("id").orderBy(col("timestamp").desc()); the rows
\* row_number() may number 1 in the partition of id i.
RankOneRows(df, i) ==
    {r \in BagToSet(df.rows) :
        /\ r.id = i
        /\ \A q \in BagToSet(df.rows) : q.id = i => q.timestamp <= r.timestamp}

\* Faulty variant of RemoveDuplicates: the filter on row_number == 1 is left out.
MutRemoveDuplicates(df, pick) ==
    [cols |-> df.cols \ {RankColumn},
     rows |-> SetToBag({Restrict(r, df.cols \ {RankColumn}) : r \in BagToSet(df.rows)})]

\* Lines 42-44: withColumn("row_number", ...) adds the column, or replaces a
\* column of that name; filter(row_number == 1) keeps one row of each
\* partition; drop("row_number") removes the column. `pick` is the row the
\* engine numbered 1 in each partition.
RemoveDuplicates(df, pick) ==
    [cols |-> df.cols \ {RankColumn},
     rows |-> SetToBag({Restrict(pick[i], df.cols \ {RankColumn}) : i \in DOMAIN pick})]

PartitionKeys(df) == {r.id : r \in BagToSet(df.rows)}
RankOnePicks(df) ==
    {pick \in [PartitionKeys(df) -> BagToSet(df.rows)] :
        \A i \in PartitionKeys(df) : pick[i] \in RankOneRows(df, i)}

\* Line 48: st.error(f"Error fetching snapshot data: {str(e)}")
FetchError(e) == [kind |-> "error", text |-> "Error fetching snapshot data", detail |-> e]

\* The script threads of the process: one per browser session.
Threads == {"A", "B"}

NoForm == [catalog |-> "", bucket |-> "", key |-> "None", query |-> "", clicked |-> FALSE]

\* filter_latest_data is not called by main(): while it runs, main's variables
\* keep the values they have before the first pass.
MainIdle ==
    /\ passes = 0
    /\ tmp_files = 0
    /\ session_seq = 0
    /\ active_session = {}
    /\ stopped = {}
    /\ form = [t \in Threads |-> NoForm]
    /\ mpc = [t \in Threads |-> "idle"]
    /\ ended = [t \in Threads |-> "never ran"]
    /\ spark = [t \in Threads |-> {}]
    /\ engine = [t \in Threads |-> <<>>]
    /\ engine_log = [t \in Threads |-> <<>>]
    /\ result = [t \in Threads |-> <<>>]
    /\ mexc = [t \in Threads |-> "none"]
    /\ pandas_df = [t \in Threads |-> <<>>]
    /\ progress = [t \in Threads |-> <<>>]
    /\ materialized = [t \in Threads |-> FALSE]
    /\ page = [t \in Threads |-> <<>>]

InitResolve ==
    /\ MainIdle
    /\ history \in Histories
    /\ input_df \in DataFrames
    /\ iceberg_df = input_df
    /\ latest_snapshot_id = {}
    /\ exc = "none"
    /\ fpc = "history"
    /\ returned = <<>>
    /\ ui = <<>>

\* Lines 30-34
GetLatestSnapshot ==
    /\ fpc = "history"
    /\ IF HistoryException(history) # "none"
       THEN /\ exc' = HistoryException(history)
            /\ fpc' = "except"
            /\ UNCHANGED latest_snapshot_id
       ELSE /\ \E r \in LatestSnapshotRows(history) : latest_snapshot_id' = {r.snapshot_id}
            /\ fpc' = "filter"
            /\ UNCHANGED exc
    /\ UNCHANGED <<history, input_df, iceberg_df, returned, ui, mvars>>

\* Line 37
FilterLatest ==
    /\ fpc = "filter"
    /\ IF "snapshot_id" \notin iceberg_df.cols
       THEN /\ exc' = "AnalysisException"
            /\ fpc' = "except"
            /\ UNCHANGED iceberg_df
       ELSE /\ \E sid \in latest_snapshot_id : iceberg_df' = FilterBySnapshot(iceberg_df, sid)
            /\ fpc' = "dedup"
            /\ UNCHANGED exc
    /\ UNCHANGED <<history, input_df, latest_snapshot_id, returned, ui, mvars>>

\* Lines 41-44
Deduplicate ==
    /\ fpc = "dedup"
    /\ IF ~({"id", "timestamp"} \subseteq iceberg_df.cols)
       THEN /\ exc' = "AnalysisException"
            /\ fpc' = "except"
            /\ UNCHANGED iceberg_df
       ELSE /\ \E pick \in RankOnePicks(iceberg_df) :
                   iceberg_df' = RemoveDuplicates(iceberg_df, pick)
            /\ fpc' = "return"
            /\ UNCHANGED exc
    /\ UNCHANGED <<history, input_df, latest_snapshot_id, returned, ui, mvars>>

\* Line 46
ReturnFiltered ==
    /\ fpc = "return"
    /\ returned' = <<iceberg_df>>
    /\ fpc' = "done"
    /\ UNCHANGED <<history, input_df, iceberg_df, latest_snapshot_id, exc, ui, mvars>>

\* Lines 47-49: except Exception reports the error and returns whatever the
\* local variable iceberg_df is bound to when the exception arrives.
HandleFetchError ==
    /\ fpc = "except"
    /\ ui' = Append(ui, FetchError(exc))
    /\ returned' = <<iceberg_df>>
    /\ fpc' = "done"
    /\ UNCHANGED <<history, input_df, iceberg_df, latest_snapshot_id, exc, mvars>>

NextResolve ==
    \/ GetLatestSnapshot
    \/ FilterLatest
    \/ Deduplicate
    \/ ReturnFiltered
    \/ HandleFetchError

SpecResolve == InitResolve /\ [][NextResolve]_vars

-----------------------------------------------------------------------------
(* main(), lines 96-128, with execute_query (61-88), run_query (52-58),    *)
(* display_results (91-93) and initialize_spark (10-24)                    *)

\* most rows the engine returns for a query
MaxResultRows == 1

\* Lines 100-102: what st.text_input and st.file_uploader return to a pass. An
\* empty text input and a file uploader without a file are falsy. The query box
\* and the button have not been read yet.
Inputs ==
    [catalog : {"", "ice"},
     bucket  : {"", "iceberg-storage"},
     key     : {"None", "key.json"},
     query   : {""},
     clicked : {FALSE}]

\* Line 115: what st.text_area returns to a pass.
Queries == {"SELECT * FROM ice.db.t", "SELECT * FROM nonexistent"}

\* Line 105: if gcs_bucket_url and gcp_access_key and iceberg_catalog
InputsPresent(f) == f.bucket # "" /\ f.key # "None" /\ f.catalog # ""

\* What the engine does with one SQL text: spark.sql raises with a message, or
\* accepts it and hands back a lazy DataFrame whose toPandas() either raises
\* or yields `rows` rows.
EngineOutcomes ==
    {[accepts |-> FALSE, message |-> "TABLE_OR_VIEW_NOT_FOUND", collects |-> FALSE, rows |-> 0],
     [accepts |-> TRUE, message |-> "Job aborted", collects |-> FALSE, rows |-> 0]}
    \cup [accepts : {TRUE}, message : {""}, collects : {TRUE}, rows : 0..MaxResultRows]

\* Lines 14-22: SparkSession.builder...getOrCreate() hands out the process's
\* active session when there is one and creates a session otherwise.
initialize_spark(active, seq) == IF active # {} THEN active ELSE {seq + 1}

\* Line 128: spark.stop() ends the session s and clears the process's reference
\* to its active session, whichever session that reference named.
ActiveAfterStop(active, s) == {}

\* Faulty variant of run_query: the exception is not caught.
MutRunQuery(query, e) ==
    IF e.accepts
    THEN [sql |-> query, completes |-> "return", kind |-> "DataFrame", text |-> ""]
    ELSE [sql |-> query, completes |-> "raise", kind |-> "Exception", text |-> e.message]

\* Lines 52-58: run_query gives `query` to spark.sql (sql is the text the
\* engine receives, e the engine's answer to it) and returns the DataFrame, or
\* the text of the exception spark.sql raised.
run_query(query, e) ==
    IF e.accepts
    THEN [sql |-> query, completes |-> "return", kind |-> "DataFrame", text |-> ""]
    ELSE [sql |-> query, completes |-> "return", kind |-> "str", text |-> e.message]

\* Line 71: isinstance(result, str)
IsErrorText(r) == r.kind = "str"

\* Line 76: the pandas table of a DataFrame the engine could collect.
Table(n) == [kind |-> "table", rows |-> n]
None == [kind |-> "None", rows |-> 0]

\* Faulty variant of IsEmpty: the empty table is not recognised.
MutIsEmpty(t) == FALSE

\* Line 79: pandas_df.empty
IsEmpty(t) == t.rows = 0

\* Line 92: if df is not None
ShouldDisplay(df) == df # None

\* Lines 64, 68, 84: the milestones given to progress_bar.progress
ProgressStarted == 0
ProgressExecuted == 50
ProgressMaterialized == 100

QueryError(msg) == [kind |-> "error", text |-> "Error running query", detail |-> msg]
ExecuteError(msg) == [kind |-> "error", text |-> "Error executing the query", detail |-> msg]
NoResults == [kind |-> "info", text |-> "No results returned for the query.", detail |-> ""]
DataGrid(t) == [kind |-> "dataframe", text |-> "", detail |-> ""]

\* A session that is already stopped refuses the query in spark.sql (line 55).
SessionStopped ==
    [accepts |-> FALSE, message |-> "Cannot call methods on a stopped SparkContext",
     collects |-> FALSE, rows |-> 0]

\* A session that is already stopped hands back a lazy DataFrame in spark.sql
\* (line 55) and refuses the job in toPandas (line 76).
SessionStoppedLazily ==
    [accepts |-> TRUE, message |-> "Cannot call methods on a stopped SparkContext",
     collects |-> FALSE, rows |-> 0]

\* Line 55: spark.sql(query) on a live session, on a stopped one. The source
\* does not fix where a stopped session fails: either place is possible.
EngineAnswers(alive) ==
    IF alive THEN EngineOutcomes ELSE {SessionStopped, SessionStoppedLazily}

InitMain ==
    /\ MainIdle
    /\ history = NoTable
    /\ input_df = [cols |-> {}, rows |-> EmptyBag]
    /\ iceberg_df = input_df
    /\ latest_snapshot_id = {}
    /\ exc = "none"
    /\ fpc = "idle"
    /\ returned = <<>>
    /\ ui = <<>>

\* Streamlit runs the script of thread t from the top with a cleared page and
\* no local bound; lines 98-102 read the three inputs.
NewPass(t, f) ==
    /\ mpc[t] = "idle"
    /\ passes < MaxPasses
    /\ passes' = passes + 1
    /\ form' = [form EXCEPT ![t] = f]
    /\ page' = [page EXCEPT ![t] = <<>>]
    /\ spark' = [spark EXCEPT ![t] = {}]
    /\ engine' = [engine EXCEPT ![t] = <<>>]
    /\ engine_log' = [engine_log EXCEPT ![t] = <<>>]
    /\ result' = [result EXCEPT ![t] = <<>>]
    /\ mexc' = [mexc EXCEPT ![t] = "none"]
    /\ pandas_df' = [pandas_df EXCEPT ![t] = <<>>]
    /\ progress' = [progress EXCEPT ![t] = <<>>]
    /\ materialized' = [materialized EXCEPT ![t] = FALSE]
    /\ UNCHANGED <<fvars, tmp_files, session_seq, active_session, stopped>>

\* Lines 98-105 with a falsy input: the pass ends at line 105.
PassWithoutInputs(t) ==
    \E f \in Inputs :
        /\ ~InputsPresent(f)
        /\ NewPass(t, f)
        /\ mpc' = mpc
        /\ ended' = [ended EXCEPT ![t] = "line 105"]

\* Lines 98-105 with the three inputs present: the pass enters the block.
PassWithInputs(t) ==
    \E f \in Inputs :
        /\ InputsPresent(f)
        /\ NewPass(t, f)
        /\ mpc' = [mpc EXCEPT ![t] = "line 107"]
        /\ ended' = [ended EXCEPT ![t] = "running"]

\* Lines 98-102 with st.title, st.text_input or st.file_uploader raising
\* Streamlit's rerun/stop exception, whatever the inputs hold: the pass leaves
\* main() before line 105, with no temporary file and no session.
PassInterruptedAtInputs(t) ==
    \E f \in Inputs :
        /\ NewPass(t, f)
        /\ mpc' = mpc
        /\ ended' = [ended EXCEPT ![t] = "interrupted"]

\* Lines 107-109: the key is written to a temporary file (delete=False).
WriteKeyFile(t) ==
    /\ mpc[t] = "line 107"
    /\ tmp_files' = tmp_files + 1
    /\ mpc' = [mpc EXCEPT ![t] = "line 112"]
    /\ UNCHANGED <<fvars, passes, session_seq, active_session, stopped, form, ended,
                   spark, engine, engine_log, result, mexc, pandas_df, progress,
                   materialized, page>>

\* Line 112: spark = initialize_spark(...)
OpenSession(t) ==
    /\ mpc[t] = "line 112"
    /\ spark' = [spark EXCEPT ![t] = initialize_spark(active_session, session_seq)]
    /\ active_session' = spark'[t]
    /\ session_seq' = IF active_session # {} THEN session_seq ELSE session_seq + 1
    /\ mpc' = [mpc EXCEPT ![t] = "line 115"]
    /\ UNCHANGED <<fvars, passes, tmp_files, stopped, form, ended, engine, engine_log,
                   result, mexc, pandas_df, progress, materialized, page>>

\* Line 112 with getOrCreate() raising (the engine cannot start): nothing in
\* main() catches the exception, and the pass ends there with spark unbound.
OpenSessionRaises(t) ==
    /\ mpc[t] = "line 112"
    /\ active_session = {}
    /\ mpc' = [mpc EXCEPT ![t] = "idle"]
    /\ ended' = [ended EXCEPT ![t] = "raised at line 112"]
    /\ UNCHANGED <<fvars, process, form, spark, engine, engine_log, result, mexc,
                   pandas_df, progress, materialized, page>>

\* Line 115: query = st.text_area("Enter SQL Query")
ReadQuery(t) ==
    /\ mpc[t] = "line 115"
    /\ \E q \in Queries : form' = [form EXCEPT ![t].query = q]
    /\ mpc' = [mpc EXCEPT ![t] = "line 117"]
    /\ UNCHANGED <<fvars, process, ended, spark, engine, engine_log, result, mexc,
                   pandas_df, progress, materialized, page>>

\* Line 117 with st.button("Run Query") false: the pass ends at line 117.
PassWithoutClick(t) ==
    /\ mpc[t] = "line 117"
    /\ form' = [form EXCEPT ![t].clicked = FALSE]
    /\ mpc' = [mpc EXCEPT ![t] = "idle"]
    /\ ended' = [ended EXCEPT ![t] = "line 117"]
    /\ UNCHANGED <<fvars, process, spark, engine, engine_log, result, mexc, pandas_df,
                   progress, materialized, page>>

\* Line 117 with the button pressed: the pass goes on to execute_query.
PassWithClick(t) ==
    /\ mpc[t] = "line 117"
    /\ form' = [form EXCEPT ![t].clicked = TRUE]
    /\ mpc' = [mpc EXCEPT ![t] = "execute"]
    /\ UNCHANGED <<fvars, process, ended, spark, engine, engine_log, result, mexc,
                   pandas_df, progress, materialized, page>>

\* Lines 119, 122, 63-64: the progress bar is created and execute_query
\* reports its first milestone.
ReportStarted(t) ==
    /\ mpc[t] = "execute"
    /\ progress' = [progress EXCEPT ![t] = Append(@, ProgressStarted)]
    /\ mpc' = [mpc EXCEPT ![t] = "run_query"]
    /\ UNCHANGED <<fvars, process, form, ended, spark, engine, engine_log, result, mexc,
                   pandas_df, materialized, page>>

\* Lines 67, 52-58: run_query hands the text to the engine, on the session the
\* pass holds, whatever another thread has done to that session since.
RunQuery(t) ==
    /\ mpc[t] = "run_query"
    /\ \E e \in EngineAnswers(spark[t] \cap stopped = {}) :
        LET r == run_query(form[t].query, e)
        IN  /\ engine' = [engine EXCEPT ![t] = <<e>>]
            /\ engine_log' = [engine_log EXCEPT ![t] = Append(@,
                   [session |-> spark[t], sql |-> r.sql,
                    alive |-> spark[t] \cap stopped = {}])]
            /\ IF r.completes = "return"
               THEN /\ result' = [result EXCEPT ![t] = <<r>>]
                    /\ mpc' = [mpc EXCEPT ![t] = "progress50"]
                    /\ UNCHANGED mexc
               ELSE /\ mexc' = [mexc EXCEPT ![t] = r.text]
                    /\ mpc' = [mpc EXCEPT ![t] = "except"]
                    /\ UNCHANGED result
    /\ UNCHANGED <<fvars, process, form, ended, spark, pandas_df, progress,
                   materialized, page>>

\* Line 68
ReportExecuted(t) ==
    /\ mpc[t] = "progress50"
    /\ progress' = [progress EXCEPT ![t] = Append(@, ProgressExecuted)]
    /\ mpc' = [mpc EXCEPT ![t] = "check"]
    /\ UNCHANGED <<fvars, process, form, ended, spark, engine, engine_log, result, mexc,
                   pandas_df, materialized, page>>

\* Lines 71-72: the result is an error text
ReportQueryError(t) ==
    /\ mpc[t] = "check"
    /\ IsErrorText(result[t][1])
    /\ page' = [page EXCEPT ![t] = Append(@, QueryError(result[t][1].text))]
    /\ mpc' = [mpc EXCEPT ![t] = "return None"]
    /\ UNCHANGED <<fvars, process, form, ended, spark, engine, engine_log, result, mexc,
                   pandas_df, progress, materialized>>

\* Lines 74-76: result.toPandas() collects the rows, or raises: the engine
\* fails the job, or the session has been stopped since the query was accepted.
Materialize(t) ==
    /\ mpc[t] = "check"
    /\ ~IsErrorText(result[t][1])
    /\ IF engine[t][1].collects /\ spark[t] \cap stopped = {}
       THEN /\ materialized' = [materialized EXCEPT ![t] = TRUE]
            /\ mpc' = [mpc EXCEPT ![t] = "empty"]
            /\ UNCHANGED mexc
       ELSE /\ mexc' = [mexc EXCEPT ![t] =
                           IF engine[t][1].collects THEN SessionStopped.message
                           ELSE engine[t][1].message]
            /\ mpc' = [mpc EXCEPT ![t] = "except"]
            /\ UNCHANGED materialized
    /\ UNCHANGED <<fvars, process, form, ended, spark, engine, engine_log, result,
                   pandas_df, progress, page>>

\* Lines 79-80, 84: the notice for an empty table, the last milestone for a
\* table with rows.
ReportTable(t) ==
    /\ mpc[t] = "empty"
    /\ IF IsEmpty(Table(engine[t][1].rows))
       THEN /\ page' = [page EXCEPT ![t] = Append(@, NoResults)]
            /\ mpc' = [mpc EXCEPT ![t] = "return None"]
            /\ UNCHANGED progress
       ELSE /\ progress' = [progress EXCEPT ![t] = Append(@, ProgressMaterialized)]
            /\ mpc' = [mpc EXCEPT ![t] = "return pandas_df"]
            /\ UNCHANGED page
    /\ UNCHANGED <<fvars, process, form, ended, spark, engine, engine_log, result, mexc,
                   pandas_df, materialized>>

\* Lines 86-87
HandleExecuteError(t) ==
    /\ mpc[t] = "except"
    /\ page' = [page EXCEPT ![t] = Append(@, ExecuteError(mexc[t]))]
    /\ mpc' = [mpc EXCEPT ![t] = "return None"]
    /\ UNCHANGED <<fvars, process, form, ended, spark, engine, engine_log, result, mexc,
                   pandas_df, progress, materialized>>

\* Lines 73, 81, 85, 88 and the assignment of line 122: execute_query returns
\* and main binds pandas_df.
ExecuteQueryReturns(t) ==
    /\ mpc[t] \in {"return None", "return pandas_df"}
    /\ pandas_df' = [pandas_df EXCEPT ![t] =
                        IF mpc[t] = "return None" THEN <<None>>
                        ELSE <<Table(engine[t][1].rows)>>]
    /\ mpc' = [mpc EXCEPT ![t] = "display"]
    /\ UNCHANGED <<fvars, process, form, ended, spark, engine, engine_log, result, mexc,
                   progress, materialized, page>>

\* Lines 125, 91-93
display_results(t) ==
    /\ mpc[t] = "display"
    /\ page' = [page EXCEPT ![t] =
                   IF ShouldDisplay(pandas_df[t][1]) THEN Append(@, DataGrid(pandas_df[t][1]))
                   ELSE @]
    /\ mpc' = [mpc EXCEPT ![t] = "stop"]
    /\ UNCHANGED <<fvars, process, form, ended, spark, engine, engine_log, result, mexc,
                   pandas_df, progress, materialized>>

\* Line 128: spark.stop() on the session the pass holds; the pass ends.
StopSession(t) ==
    /\ mpc[t] = "stop"
    /\ stopped' = stopped \cup spark[t]
    /\ active_session' = ActiveAfterStop(active_session, spark[t])
    /\ mpc' = [mpc EXCEPT ![t] = "idle"]
    /\ ended' = [ended EXCEPT ![t] = "line 128"]
    /\ UNCHANGED <<fvars, passes, tmp_files, session_seq, form, spark, engine, engine_log,
                   result, mexc, pandas_df, progress, materialized, page>>

\* The statement the thread is about to run calls st.* (st.text_area at 115;
\* st.button at 117; st.progress and progress_bar.progress at 119/64, 68,
\* 84; st.error at 72, 87; st.info at 80; st.dataframe at 93).
AtStreamlitCall(t) ==
    \/ mpc[t] \in {"line 115", "line 117", "execute", "progress50", "empty", "except"}
    \/ mpc[t] = "check" /\ IsErrorText(result[t][1])
    \/ mpc[t] = "display" /\ ShouldDisplay(pandas_df[t][1])

\* The statement the thread has just run called st.* (64; 68; 72, 80, 84, 87
\* with the return of execute_query still to come; 93).
AfterStreamlitCall(t) ==
    \/ mpc[t] \in {"run_query", "check", "return None", "return pandas_df"}
    \/ mpc[t] = "stop" /\ ShouldDisplay(pandas_df[t][1])

\* Streamlit raises its rerun/stop exception inside a call of st.*, before the
\* call takes effect or after it. It is a BaseException: neither except
\* Exception (57, 86) catches it, and no finally runs line 128. The pass
\* leaves main() there.
Interrupted(t) ==
    /\ AtStreamlitCall(t) \/ AfterStreamlitCall(t)
    /\ mpc' = [mpc EXCEPT ![t] = "idle"]
    /\ ended' = [ended EXCEPT ![t] = "interrupted"]
    /\ UNCHANGED <<fvars, process, form, spark, engine, engine_log, result, mexc,
                   pandas_df, progress, materialized, page>>

NextMain ==
    \E t \in Threads :
        \/ PassWithoutInputs(t)
        \/ PassWithInputs(t)
        \/ PassInterruptedAtInputs(t)
        \/ WriteKeyFile(t)
        \/ OpenSession(t)
        \/ OpenSessionRaises(t)
        \/ ReadQuery(t)
        \/ PassWithoutClick(t)
        \/ PassWithClick(t)
        \/ ReportStarted(t)
        \/ RunQuery(t)
        \/ ReportExecuted(t)
        \/ ReportQueryError(t)
        \/ Materialize(t)
        \/ ReportTable(t)
        \/ HandleExecuteError(t)
        \/ ExecuteQueryReturns(t)
        \/ display_results(t)
        \/ StopSession(t)
        \/ Interrupted(t)

SpecMain == InitMain /\ [][NextMain]_vars

-----
(* Properties of filter_latest_data, checked under SpecResolve *)

Rows(df) == BagToSet(df.rows)
Failed == fpc = "done" /\ exc # "none"
Succeeded == fpc = "done" /\ exc = "none"
ErrorReported == \E k \in 1..Len(ui) : ui[k].kind = "error"

\* No two rows of df carry the same primary key: no row occurs twice and no two
\* different rows agree on "id".
NoDuplicateKeys(df) ==
    "id" \in df.cols =>
        \A r \in Rows(df) :
            /\ df.rows[r] = 1
            /\ \A q \in Rows(df) : q.id = r.id => q = r

\* C1: whenever a step of the try block fails, the function returns (it does
\* not raise), an error is reported to the UI, and the row-set returned is
\* exactly the row-set passed in.
C1_FailureReturnsInput ==
    Failed => /\ ErrorReported
              /\ returned = <<input_df>>

\* C2 as stated: every row-set the function returns, on any input and any
\* history, has no two rows with the same "id".
C2_NeverDuplicateKeys ==
    fpc = "done" => NoDuplicateKeys(returned[1])

\* C2 as amended: every row-set the function returns without having reported an
\* error (the history, the filter and the deduplication all succeeded) has no
\* two rows with the same "id".
C2_NoDuplicateKeysOnSuccess ==
    Succeeded => NoDuplicateKeys(returned[1])

\* The call succeeded on an input in which two rows of the latest snapshot
\* share an id, and returned fewer rows than the snapshot holds.
C2_Witness ==
    /\ Succeeded
    /\ \E sid \in latest_snapshot_id :
        LET snap == FilterBySnapshot(input_df, sid)
        IN  /\ ~NoDuplicateKeys(snap)
            /\ BagCardinality(returned[1].rows) < BagCardinality(snap.rows)
            /\ BagCardinality(returned[1].rows) > 0

\* C3: the snapshot identifier bound at line 34 is the snapshot_id of a history
\* row whose timestamp is the greatest of all history rows, and from line 37
\* on the data is filtered to that identifier.
C3_LatestSnapshotSelected ==
    /\ \A sid \in latest_snapshot_id :
          \E h \in Rows(history) :
              /\ h.snapshot_id = sid
              /\ \A g \in Rows(history) : g.timestamp <= h.timestamp
    /\ (fpc \in {"dedup", "return"} \/ Succeeded) =>
          /\ latest_snapshot_id # {}
          /\ \A r \in Rows(iceberg_df) : r.snapshot_id \in latest_snapshot_id

\* The history holds an older and a newer snapshot, the input holds rows of
\* both, and the filter has kept the rows of the newer one.
C3_Witness ==
    /\ fpc = "dedup"
    /\ \E h, g \in Rows(history) :
          /\ g.timestamp < h.timestamp /\ g.snapshot_id # h.snapshot_id
          /\ latest_snapshot_id = {h.snapshot_id}
          /\ \E r, q \in Rows(input_df) :
                r.snapshot_id = h.snapshot_id /\ q.snapshot_id = g.snapshot_id
    /\ Rows(iceberg_df) # {}

\* C4: every returned row has a timestamp at least that of every row of the
\* snapshot-filtered input (the input rows tagged with the latest snapshot
\* identifier) that shares its id. The rows compared are those for which the
\* claim's terms exist: a latest snapshot identifier is bound and the input
\* has the columns snapshot_id, id and timestamp.
C4_ReturnedRowsAreNewest ==
    (fpc = "done" /\ DataColumns \subseteq input_df.cols) =>
        \A sid \in latest_snapshot_id :
            \A r \in Rows(returned[1]) :
                \A q \in Rows(FilterBySnapshot(input_df, sid)) :
                    q.id = r.id => r.timestamp >= q.timestamp

\* A returned row has displaced an older row of the same id and snapshot.
C4_Witness ==
    /\ fpc = "done"
    /\ DataColumns \subseteq input_df.cols
    /\ \E sid \in latest_snapshot_id :
          \E r \in Rows(returned[1]) :
              \E q \in Rows(FilterBySnapshot(input_df, sid)) :
                  q.id = r.id /\ q.timestamp < r.timestamp

\* C9: when the function succeeds, every returned row is one of the input rows
\* of the latest snapshot with all its columns and values, and every id of the
\* latest snapshot's input rows occurs in the output.
C9_SuccessKeepsLatestRows ==
    Succeeded =>
        \A sid \in latest_snapshot_id :
            LET snap == FilterBySnapshot(input_df, sid)
            IN  /\ \A r \in Rows(returned[1]) : r \in Rows(snap)
                /\ \A q \in Rows(snap) : \E r \in Rows(returned[1]) : r.id = q.id

-----------------------------------------------------------------------------------------------------------------------------------------------------
(* Properties of main(), checked under SpecMain *)

PassEnded(t) == mpc[t] = "idle" /\ ended[t] # "never ran"
\* A query cycle (one click of Run Query) has ended, at line 128 or earlier.
CycleEnded(t) == PassEnded(t) /\ InputsPresent(form[t]) /\ form[t].clicked
Kinds(t) == [k \in 1..Len(page[t]) |-> page[t][k].kind]

\* C5: once run_query has handed the text to the engine it has returned, never
\* raised: a DataFrame handle exactly when the engine accepted the text, the
\* engine's message as text exactly when the engine raised; the text the engine
\* received is the text of the query box.
C5_RunQueryReturnsVariant ==
    \A t \in Threads :
        engine_log[t] # <<>> =>
            /\ Len(engine_log[t]) = 1
            /\ engine_log[t][1].sql = form[t].query
            /\ result[t] # <<>>
            /\ result[t][1].completes = "return"
            /\ result[t][1].kind \in {"DataFrame", "str"}
            /\ result[t][1].kind = "DataFrame" <=> engine[t][1].accepts
            /\ result[t][1].kind = "str" <=> ~engine[t][1].accepts
            /\ ~engine[t][1].accepts => result[t][1].text = engine[t][1].message

\* run_query returned the engine's message for a query on a missing table.
C5_Witness ==
    \E t \in Threads :
        /\ result[t] # <<>>
        /\ result[t][1].kind = "str"
        /\ result[t][1].text = "TABLE_OR_VIEW_NOT_FOUND"
        /\ form[t].query = "SELECT * FROM nonexistent"

\* What a cycle that ran to line 128 shows, by what happened to its query: the
\* grid when it yielded rows (execute_query returned the table), the notice
\* alone when it yielded no row (execute_query returned None), the error alone
\* when the query or the materialization failed (execute_query returned None).
OutputMatchesOutcome(t) ==
    /\ engine[t] # <<>> /\ pandas_df[t] # <<>>
    /\ (materialized[t] /\ engine[t][1].rows > 0) =>
          Kinds(t) = <<"dataframe">> /\ pandas_df[t][1] = Table(engine[t][1].rows)
    /\ (materialized[t] /\ engine[t][1].rows = 0) =>
          Kinds(t) = <<"info">> /\ pandas_df[t][1] = None
    /\ ~materialized[t] =>
          Kinds(t) = <<"error">> /\ pandas_df[t][1] = None

\* C6: every query cycle shows exactly one of grid, notice and error, the one
\* that matches what happened to its query.
C6_ExactlyOneOutputPerCycle ==
    \A t \in Threads :
        /\ Len(page[t]) <= 1
        /\ CycleEnded(t) => OutputMatchesOutcome(t)

\* What remains true of the cycles: none shows more than one output, and one
\* that runs to line 128 shows the output that matches its query's outcome.
CompletedCycleShowsOneOutput ==
    \A t \in Threads :
        /\ Len(page[t]) <= 1
        /\ (PassEnded(t) /\ ended[t] = "line 128") => OutputMatchesOutcome(t)

IsPrefix(s, t) == Len(s) <= Len(t) /\ \A k \in 1..Len(s) : s[k] = t[k]
Milestones == <<ProgressStarted, ProgressExecuted, ProgressMaterialized>>

\* C7 as stated: the milestones are reported in the order 0, 50, 100, and a
\* call that has materialized its result has reported all three when it
\* returns.
C7_AllMilestonesReported ==
    \A t \in Threads :
        /\ IsPrefix(progress[t], Milestones)
        /\ (pandas_df[t] # <<>> /\ materialized[t]) => progress[t] = Milestones

\* C7 as amended: the values a call reports are 0, then 50 after the engine has
\* been given the query, then 100, in that order and never decreasing; 100 is
\* reported only after the result was materialized and only when the table has
\* at least one row. The notice for an empty result and the error for a failed
\* query or materialization are shown at 50, and 100 is never reported after
\* them; the grid is shown only after 100.
C7_MilestonesInOrder ==
    \A t \in Threads :
        /\ IsPrefix(progress[t], Milestones)
        /\ Len(progress[t]) >= 2 => engine_log[t] # <<>>
        /\ Len(progress[t]) = 3 => materialized[t] /\ engine[t][1].rows > 0
        /\ (\E k \in 1..Len(page[t]) : page[t][k].kind \in {"info", "error"}) =>
              progress[t] = <<ProgressStarted, ProgressExecuted>>
        /\ (\E k \in 1..Len(page[t]) : page[t][k].kind = "dataframe") =>
              progress[t] = Milestones

\* The notice for a materialized, empty result is on the page, at 50.
C7_Witness ==
    \E t \in Threads :
        /\ Kinds(t) = <<"info">>
        /\ materialized[t]
        /\ engine[t][1].rows = 0
        /\ progress[t] = <<ProgressStarted, ProgressExecuted>>

\* C8: when a pass ends, the session initialize_spark gave it has been stopped.
C8_SessionStoppedAtPassEnd ==
    \A t \in Threads : PassEnded(t) => spark[t] \subseteq stopped

\* A query is given to the engine only in a pass whose three inputs are present
\* and whose button was pressed, on the session initialize_spark gave that pass.
QueryOnlyOnClick(t) ==
    engine_log[t] # <<>> =>
        /\ InputsPresent(form[t]) /\ form[t].clicked
        /\ spark[t] # {}
        /\ \A k \in 1..Len(engine_log[t]) : engine_log[t][k].session = spark[t]

\* C10: the engine is given a query only in a pass whose three inputs are
\* present and whose button was pressed, on the session initialize_spark gave
\* that pass, and that session has not been stopped when the query runs.
C10_QueryOnLiveSession ==
    \A t \in Threads :
        /\ QueryOnlyOnClick(t)
        /\ \A k \in 1..Len(engine_log[t]) : engine_log[t][k].alive

====
